---- MODULE Spec2Model ----
(***************************************************************************)
(* Model of the demand-forecast service ml_service: the training pipeline  *)
(* of train.py (prepare_data, create_prophet_model, train_prophet_model,   *)
(* evaluate_model, cross_validate_model), the prediction pipeline of       *)
(* inference.py (predict_demand, batch_predict, analyze_forecast_accuracy, *)
(* get_prediction_intervals) and the request handlers of app.py            *)
(* (train_endpoint, train_model_async, predict_endpoint, delete_model).    *)
(*                                                                         *)
(* A DataFrame is a sequence of rows [ds, y].  ds is a calendar day        *)
(* counted from an arbitrary origin.  In caller input y is <<>> for a      *)
(* null quantity and <<q>> for the quantity q; after prepare_data every y  *)
(* is a plain number.  Prophet is a black box: a fitted model is the       *)
(* record of its configuration and of the rows it was fitted on, and the   *)
(* values it predicts are chosen by the environment.                       *)
(***************************************************************************)
EXTENDS Integers, Sequences, FiniteSets, TLC

\* ---------------------------------------------------------------- bounds
MaxRows == 2
MaxDate == 2
MaxCycle == 1
MaxHorizon == 3

\* ------------------------------------------------------- program constants
MinTrainRows == 30
MinTestRows == 7
WeeklySpan == 21
YearlySpan == 365
MonthlySpan == 30
MonthlyFourierOrder == 3
ExampleHorizon == 10
CvShortSpan == 90
CvLongSpan == 365
ExcellentMape == 10
GoodMape == 20
ReasonableMape == 50
RoundDigits == 4

\* ------------------------------------------------------------- arithmetic
Abs(x) == IF x < 0 THEN 0 - x ELSE x

Max2(a, b) == IF a >= b THEN a ELSE b

RECURSIVE Gcd(_, _)
Gcd(a, b) == IF b = 0 THEN a ELSE Gcd(b, a % b)

Lcm(a, b) == (a \div Gcd(a, b)) * b

\* sum of s[lo..hi], by halves
RECURSIVE SumRange(_, _, _)
SumRange(s, lo, hi) ==
    IF lo > hi THEN 0
    ELSE IF lo = hi THEN s[lo]
    ELSE SumRange(s, lo, (lo + hi) \div 2) + SumRange(s, ((lo + hi) \div 2) + 1, hi)

SumSeq(s) == SumRange(s, 1, Len(s))

RECURSIVE LcmSet(_)
LcmSet(S) ==
    IF S = {} THEN 1
    ELSE LET x == CHOOSE v \in S : TRUE IN Lcm(x, LcmSet(S \ {x}))

\* ------------------------------------------------------------ data frames
Col(df, f) == [i \in DOMAIN df |-> df[i][f]]

DsSet(df) == {df[i].ds : i \in DOMAIN df}

\* df['ds'].min() and df['ds'].max() of a non-empty frame, by halves
RECURSIVE MinRange(_, _, _)
MinRange(df, lo, hi) ==
    IF lo = hi THEN df[lo].ds
    ELSE LET l == MinRange(df, lo, (lo + hi) \div 2)
             r == MinRange(df, ((lo + hi) \div 2) + 1, hi)
         IN  IF l <= r THEN l ELSE r

RECURSIVE MaxRange(_, _, _)
MaxRange(df, lo, hi) ==
    IF lo = hi THEN df[lo].ds
    ELSE LET l == MaxRange(df, lo, (lo + hi) \div 2)
             r == MaxRange(df, ((lo + hi) \div 2) + 1, hi)
         IN  IF l >= r THEN l ELSE r

MinDs(df) == MinRange(df, 1, Len(df))

MaxDs(df) == MaxRange(df, 1, Len(df))

\* df.fillna(0) in place of the dropna: a null quantity becomes a sale of 0
FillNaZero(df) ==
    [i \in DOMAIN df |-> [ds |-> df[i].ds, y |-> IF df[i].y = <<>> THEN <<0>> ELSE df[i].y]]

\* df.dropna(subset=['y'])
DropNa(df) == SelectSeq(df, LAMBDA r : r.y # <<>>)

\* clip(lower=1) in place of clip(lower=0)
ClipLowerUnit(df) == [i \in DOMAIN df |-> [ds |-> df[i].ds, y |-> Max2(df[i].y[1], 1)]]

\* df['y'].clip(lower=0), on rows that have a quantity
ClipLower(df) == [i \in DOMAIN df |-> [ds |-> df[i].ds, y |-> Max2(df[i].y[1], 0)]]

\* df.sort_values('ds'): insertion of each row after the rows with ds <= its own
RECURSIVE InsertByDs(_, _)
InsertByDs(r, s) ==
    IF s = <<>> THEN <<r>>
    ELSE IF Head(s).ds <= r.ds THEN <<Head(s)>> \o InsertByDs(r, Tail(s))
    ELSE <<r>> \o s

RECURSIVE SortByInsertion(_)
SortByInsertion(df) ==
    IF df = <<>> THEN <<>>
    ELSE InsertByDs(df[Len(df)], SortByInsertion(SubSeq(df, 1, Len(df) - 1)))

\* rows that are in order already stay as they are
SortValues(df) ==
    IF \A i \in 1..(Len(df) - 1) : df[i].ds <= df[i + 1].ds THEN df
    ELSE SortByInsertion(df)

\* pd.date_range(start, end, freq='D')
DateRange(start, end) == [i \in 1..(end - start + 1) |-> start + i - 1]

\* full_df.merge(df, on='ds', how='left').fillna(0): one row per matching row
\* of df, or one row with quantity 0 for a day that df does not hold
RECURSIVE MergeRange(_, _, _, _)
MergeRange(dates, df, lo, hi) ==
    IF lo > hi THEN <<>>
    ELSE IF lo = hi
    THEN LET hit == SelectSeq(df, LAMBDA r : r.ds = dates[lo])
         IN  IF hit = <<>> THEN <<[ds |-> dates[lo], y |-> 0]>> ELSE hit
    ELSE MergeRange(dates, df, lo, (lo + hi) \div 2)
         \o MergeRange(dates, df, ((lo + hi) \div 2) + 1, hi)

\* an inner join in place of the left join: days without a row stay missing
MergeInner(dates, df) == SelectSeq(df, LAMBDA r : \E i \in DOMAIN dates : dates[i] = r.ds)

MergeLeftFillNa(dates, df) == MergeRange(dates, df, 1, Len(dates))

\* prepare_data: on an input without any non-null row min()/max() are NaT and
\* pd.date_range raises
prepare_data(df) ==
    LET kept == SortValues(ClipLower(DropNa(df)))
    IN  IF kept = <<>>
        THEN [status |-> "ValueError", rows |-> <<>>]
        ELSE [status |-> "ok",
              rows |-> MergeLeftFillNa(DateRange(MinDs(kept), MaxDs(kept)), kept)]

\* ------------------------------------------------------ model configuration
\* the number of rows taken for the span
SpanRows(df) == Len(df)

\* (df['ds'].max() - df['ds'].min()).days
SpanDays(df) == MaxDs(df) - MinDs(df)

\* avg_sales >= 0 in place of avg_sales > 0
MeanNonNegative(df) == SumSeq(Col(df, "y")) >= 0

\* sign test of df['y'].mean(): the mean of a non-empty column is > 0 exactly
\* when its sum is
MeanPositive(df) == SumSeq(Col(df, "y")) > 0

\* create_prophet_model: the keyword arguments handed to Prophet and the custom
\* seasonalities added afterwards (period in half days: 61 is 30.5 days)
create_prophet_model(df) ==
    LET data_span_days == SpanDays(df)
    IN  [daily_seasonality |-> FALSE,
         weekly_seasonality |-> data_span_days > WeeklySpan,
         yearly_seasonality |-> data_span_days > YearlySpan,
         seasonality_mode |-> IF MeanPositive(df) THEN "multiplicative" ELSE "additive",
         seasonalities |-> IF data_span_days > MonthlySpan
                           THEN <<[name |-> "monthly", half_days |-> 61,
                                   fourier_order |-> MonthlyFourierOrder]>>
                           ELSE <<>>]

\* Prophet.fit: the fitted model remembers its configuration and its rows
Fit(config, df) == [config |-> config, fitted_on |-> df]

NoModel == [config |-> [none |-> TRUE], fitted_on |-> <<>>]

\* Prophet.predict: one yhat per requested date; the environment chooses the
\* values as a cycle repeated along the calendar
Predict(cycle, dates) == [i \in DOMAIN dates |-> cycle[(dates[i] % Len(cycle)) + 1]]

\* ---------------------------------------------------------------- metrics
\* np.maximum(y_pred, 0)
ClampPred(y_pred) == [i \in DOMAIN y_pred |-> Max2(y_pred[i], 0)]

\* y_true != 0: the positions kept, in order
MapeMask(y_true) == SelectSeq([i \in DOMAIN y_true |-> i], LAMBDA i : y_true[i] # 0)

\* the mean taken over all entries, the zero actuals counted with ratio 0
MapeFractionUnmasked(y_true, y_pred) ==
    LET idx == MapeMask(y_true)
        den == LcmSet({Abs(y_true[idx[k]]) : k \in DOMAIN idx})
        terms == [k \in DOMAIN idx |->
                    Abs(y_true[idx[k]] - y_pred[idx[k]]) * (den \div Abs(y_true[idx[k]]))]
    IN  IF idx = <<>> THEN [n |-> 0, d |-> 1]
        ELSE [n |-> SumSeq(terms), d |-> Len(y_true) * den]

\* np.mean(np.abs((y_true[mask] - y_pred[mask]) / y_true[mask])) as the exact
\* fraction n/d over the common denominator of the masked actuals; the
\* percentage is 100 * n / d.  Without a masked entry the code sets mape to 0.
MapeFraction(y_true, y_pred) ==
    LET idx == MapeMask(y_true)
        den == LcmSet({Abs(y_true[idx[k]]) : k \in DOMAIN idx})
        terms == [k \in DOMAIN idx |->
                    Abs(y_true[idx[k]] - y_pred[idx[k]]) * (den \div Abs(y_true[idx[k]]))]
    IN  IF idx = <<>> THEN [n |-> 0, d |-> 1]
        ELSE [n |-> SumSeq(terms), d |-> Len(idx) * den]

\* mean_absolute_error(y_true, y_pred) as an exact fraction
MaeFraction(y_true, y_pred) ==
    [n |-> SumSeq([i \in DOMAIN y_true |-> Abs(y_true[i] - y_pred[i])]),
     d |-> Len(y_true)]

\* 100 * f.n / f.d <= t, for a threshold t >= 0
PctLeq(f, t) ==
    LET q == f.n \div f.d
        r == f.n % f.d
    IN  /\ 100 * q <= t
        /\ 100 * r <= (t - 100 * q) * f.d

RECURSIVE Pow10(_)
Pow10(k) == IF k = 0 THEN 1 ELSE 10 * Pow10(k - 1)

\* the first k decimal digits of r/d (r < d), as a number, and the remainder
RECURSIVE Digits(_, _, _)
Digits(r, d, k) ==
    IF k = 0 THEN [val |-> 0, rem |-> r]
    ELSE LET rest == Digits((r * 10) % d, d, k - 1)
         IN  [val |-> ((r * 10) \div d) * Pow10(k - 1) + rest.val, rem |-> rest.rem]

\* round(float(scale * f.n / f.d), 4): the value to four decimals, to nearest,
\* ties to even, as whole part and ten-thousandths
RoundFrac(f, scale) ==
    LET q == f.n \div f.d
        r == f.n % f.d
        w == (scale * r) \div f.d
        r0 == (scale * r) % f.d
        dg == Digits(r0, f.d, RoundDigits)
        up == \/ 2 * dg.rem > f.d
              \/ 2 * dg.rem = f.d /\ dg.val % 2 = 1
        frac == IF up THEN dg.val + 1 ELSE dg.val
    IN  IF frac = Pow10(RoundDigits)
        THEN [whole |-> scale * q + w + 1, frac |-> 0]
        ELSE [whole |-> scale * q + w, frac |-> frac]

\* 100 * f.n / f.d < t
PctLess(f, t) ==
    LET q == f.n \div f.d
        r == f.n % f.d
    IN  /\ 100 * q <= t
        /\ 100 * r < (t - 100 * q) * f.d

\* the ladder with < in place of <=
AccuracyCategoryStrict(mape) ==
    IF PctLess(mape, ExcellentMape) THEN "Excellent"
    ELSE IF PctLess(mape, GoodMape) THEN "Good"
    ELSE IF PctLess(mape, ReasonableMape) THEN "Reasonable"
    ELSE "Poor"

\* the accuracy_category ladder on the unrounded mape
AccuracyCategory(mape) ==
    IF PctLeq(mape, ExcellentMape) THEN "Excellent"
    ELSE IF PctLeq(mape, GoodMape) THEN "Good"
    ELSE IF PctLeq(mape, ReasonableMape) THEN "Reasonable"
    ELSE "Poor"

\* a split after 70% of the rows
SplitPointSeventy(df) == (Len(df) * 7) \div 10

\* int(len(df) * 0.8)
SplitPoint(df) == (Len(df) * 8) \div 10

TrainPart(df) == SubSeq(df, 1, SplitPoint(df))

\* a test part that starts one row early, on the last train row
TestPartOverlap(df) == SubSeq(df, SplitPoint(df), Len(df))

TestPart(df) == SubSeq(df, SplitPoint(df) + 1, Len(df))

\* the week of test data is demanded with <= in place of <
HoldoutTooShortLeq(test_df) == Len(test_df) <= MinTestRows

\* if len(test_df) < 7
HoldoutTooShort(test_df) == Len(test_df) < MinTestRows

\* the steps of the primitive that the environment can make raise
Faults == {"none", "fit", "eval_fit", "eval_predict", "eval_metrics", "mlflow"}

\* a handler around the metric computation only
CaughtMetricsOnly(fault) == fault = "eval_metrics"

\* try ... except Exception of evaluate_model: it encloses the whole body
Caught(fault) == fault \in {"eval_fit", "eval_predict", "eval_metrics"}

ErrorBundle == [error |-> "exception", evaluation_date |-> "now"]

NoMetrics == [none |-> TRUE]

NoScore == [y_true |-> <<>>, y_pred |-> <<>>, mape |-> [n |-> 0, d |-> 1]]

\* the holdout model takes over the configuration of the fitted model
CopiedConfig(model, train_df) == model.config

\* temp_model = create_prophet_model(train_df, sku): a new Prophet, configured
\* from the train part
HoldoutConfig(model, train_df) == create_prophet_model(train_df)

\* evaluate_model.  model is the already fitted model, cycle the values the
\* predicting model produces, fault the step of the primitive that raises.
\* Returns the bundle, the calls made to the primitive in order, the model
\* refitted for the holdout, and the vectors the metrics were computed from.
evaluate_model(model, df, cycle, fault) ==
    LET train_df == TrainPart(df)
        test_df == TestPart(df)
        holdout == ~HoldoutTooShort(test_df)
        temp_config == HoldoutConfig(model, train_df)
        fits == IF holdout
                THEN <<[call |-> "configure", df |-> train_df],
                       [call |-> "fit", df |-> train_df]>>
                ELSE <<>>
        temp_model == IF holdout /\ fault # "eval_fit"
                      THEN Fit(temp_config, train_df) ELSE NoModel
        scored == IF holdout THEN test_df ELSE df
        predicts == <<[call |-> "predict", df |-> scored]>>
        y_true == Col(scored, "y")
        y_pred == ClampPred(Predict(cycle, Col(scored, "ds")))
        mape == MapeFraction(y_true, y_pred)
        raising == \/ holdout /\ fault = "eval_fit"
                   \/ fault \in {"eval_predict", "eval_metrics"}
        calls == IF holdout /\ fault = "eval_fit" THEN fits ELSE fits \o predicts
    IN  IF raising
        THEN [raised |-> ~Caught(fault),
              metrics |-> IF Caught(fault) THEN ErrorBundle ELSE NoMetrics,
              calls |-> calls, temp_model |-> temp_model, score |-> NoScore]
        ELSE [raised |-> FALSE,
              metrics |-> [mae |-> RoundFrac(MaeFraction(y_true, y_pred), 1),
                           mape |-> RoundFrac(mape, 100),
                           test_samples |-> Len(y_true),
                           evaluation_date |-> "now",
                           data_span_days |-> SpanDays(df),
                           accuracy_category |-> AccuracyCategory(mape)],
              calls |-> calls, temp_model |-> temp_model,
              score |-> [y_true |-> y_true, y_pred |-> y_pred, mape |-> mape]]

\* the gate lets a series of exactly 30 rows fail
InsufficientRowsLeq(prepared_df) == Len(prepared_df) <= MinTrainRows

\* if len(prepared_df) < 30
InsufficientRows(prepared_df) == Len(prepared_df) < MinTrainRows

Failed(status, got, calls) ==
    [status |-> status, got |-> got, model |-> NoModel, metrics |-> NoMetrics,
     calls |-> calls, temp_model |-> NoModel, score |-> NoScore]

\* the values interpolated into the message of the ValueError raised by the
\* gate of train_prophet_model: the number of prepared rows
GateMessage(got) == [got |-> got]

\* the values interpolated into the message of the ValueError raised by the
\* gate of train_model_async: the literal 30 and the number of records
ServiceGateMessage(got) == [required |-> MinTrainRows, got |-> got]

\* train_prophet_model
train_prophet_model(df, cycle, fault) ==
    LET prep == prepare_data(df)
        prepared_df == prep.rows
        config == create_prophet_model(prepared_df)
        model == Fit(config, prepared_df)
        ev == evaluate_model(model, prepared_df, cycle, fault)
        begun == <<[call |-> "configure", df |-> prepared_df],
                   [call |-> "fit", df |-> prepared_df]>>
    IN  IF prep.status # "ok" THEN Failed("ValueError", 0, <<>>)
        ELSE IF InsufficientRows(prepared_df)
        THEN Failed("InsufficientData", Len(prepared_df), <<>>)
             @@ [error |-> GateMessage(Len(prepared_df))]
        ELSE IF fault = "fit" THEN Failed("FitError", Len(prepared_df), begun)
        ELSE IF ev.raised THEN Failed("EvaluationError", Len(prepared_df), begun \o ev.calls)
        ELSE [status |-> "ok", got |-> Len(prepared_df), model |-> model,
              metrics |-> ev.metrics, calls |-> begun \o ev.calls,
              temp_model |-> ev.temp_model, score |-> ev.score]

\* the short windows kept up to a span of exactly 90 days
CvWindowsLeq(data_span) ==
    IF data_span <= CvShortSpan THEN [horizon |-> 14, initial |-> 30, period |-> 7]
    ELSE IF data_span < CvLongSpan THEN [horizon |-> 30, initial |-> 90, period |-> 14]
    ELSE [horizon |-> 60, initial |-> 180, period |-> 30]

\* the if / elif / else on data_span: horizon, initial and period in days
CvWindows(data_span) ==
    IF data_span < CvShortSpan THEN [horizon |-> 14, initial |-> 30, period |-> 7]
    ELSE IF data_span < CvLongSpan THEN [horizon |-> 30, initial |-> 90, period |-> 14]
    ELSE [horizon |-> 60, initial |-> 180, period |-> 30]

\* cross_validate_model: the windows handed to Prophet's cross_validation and
\* the summary.  A cross_validation or performance_metrics that raises is
\* caught and reported as cv_error; the fold metrics are Prophet's own.
cross_validate_model(df, fault) ==
    LET data_span == SpanDays(df)
        windows == CvWindows(data_span)
        asked == <<[call |-> "cross_validation"] @@ windows>>
    IN  IF fault = "cv"
        THEN [status |-> "ok", calls |-> asked, summary |-> [cv_error |-> "exception"]]
        ELSE [status |-> "ok", calls |-> asked,
              summary |-> [cv_horizon |-> windows.horizon, cv_date |-> "now"]]

\* ------------------------------------------------------------ service layer
\* get_sales_data: SELECT date, SUM(qty) ... GROUP BY date ORDER BY date;
\* an empty result raises
get_sales_data(db) ==
    IF db = <<>> THEN [status |-> "NoSalesData", rows |-> <<>>]
    ELSE [status |-> "ok", rows |-> SortValues(db)]

\* train_model_async up to the point where the artifacts are written
train_model_async(db, cycle, fault) ==
    LET sales == get_sales_data(db)
        sales_data == sales.rows
        trained == train_prophet_model(sales_data, cycle, fault)
    IN  IF sales.status # "ok" THEN Failed("NoSalesData", 0, <<>>)
        ELSE IF Len(sales_data) < MinTrainRows
        THEN Failed("InsufficientData", Len(sales_data), <<>>)
             @@ [error |-> ServiceGateMessage(Len(sales_data))]
        ELSE trained

\* --------------------------------------------------------------- inference
\* A datetime is a calendar day and a second of that day.  A date string
\* 'YYYY-MM-DD' is represented by the number of its calendar day.  Forecast
\* values are counted in thousandths, values rounded to two decimals in
\* hundredths.  A NaN of the forecast frame and a None of a prediction are
\* <<>>, a present value v is <<v>>.
Timestamp(day, secs) == [day |-> day, secs |-> secs]

\* the default start taken as the day of the call itself
Today(now) == Timestamp(now.day, 0)

\* datetime.now().date() + timedelta(days=1)
Tomorrow(now) == Timestamp(now.day + 1, 0)

\* pd.date_range(start=start_date, periods=horizon_days, freq='D'): the time
\* of day of the start is carried along
FutureDates(start, periods) ==
    [i \in 1..periods |-> Timestamp(start.day + i - 1, start.secs)]

\* row['ds'].strftime('%Y-%m-%d'): the time of day is dropped
Strftime(ts) == ts.day

\* pd.to_datetime of a date string: midnight of that day
ToDatetime(date) == Timestamp(date, 0)

\* max(0, float(v)): a NaN compares false with 0, and max keeps the 0
ClampPoint(v) == IF v = <<>> THEN 0 ELSE Max2(v[1], 0)

\* max(0, float(v)) if pd.notna(v) else None
ClampBound(v) == IF v = <<>> THEN <<>> ELSE <<Max2(v[1], 0)>>

\* the dictionary built for one row of the forecast frame
PredictionRow(row, has_weekly, has_yearly) ==
    [date |-> Strftime(row.ds),
     yhat |-> ClampPoint(row.yhat),
     yhat_lower |-> ClampBound(row.yhat_lower),
     yhat_upper |-> ClampBound(row.yhat_upper),
     trend |-> row.trend]
    @@ (IF has_weekly THEN [weekly_seasonal |-> row.weekly] ELSE <<>>)
    @@ (IF has_yearly THEN [yearly_seasonal |-> row.yearly] ELSE <<>>)

\* the position of the last of the largest values
ArgMaxLast(values) ==
    CHOOSE i \in DOMAIN values :
        /\ \A j \in DOMAIN values : values[j] <= values[i]
        /\ \A j \in DOMAIN values : j > i => values[j] < values[i]

\* np.argmax: the position of the first of the largest values
ArgMax(values) ==
    CHOOSE i \in DOMAIN values :
        /\ \A j \in DOMAIN values : values[j] <= values[i]
        /\ \A j \in DOMAIN values : j < i => values[j] < values[i]

\* np.argmin: the position of the first of the smallest values
ArgMin(values) ==
    CHOOSE i \in DOMAIN values :
        /\ \A j \in DOMAIN values : values[j] >= values[i]
        /\ \A j \in DOMAIN values : j < i => values[j] > values[i]

\* round(x, 2) of x = f.n / f.d thousandths (x >= 0), in hundredths.  Python
\* rounds the binary value of the float, which lies above or below a decimal
\* tie (round(0.005, 2) is 0.01, round(0.015, 2) is 0.01): ties_up is the side
\* the float falls on.
Round2(f, ties_up) ==
    LET q == f.n \div (10 * f.d)
        r == f.n % (10 * f.d)
    IN  IF 2 * r > 10 * f.d \/ (2 * r = 10 * f.d /\ ties_up) THEN q + 1 ELSE q

\* the steps of predict_demand that the environment can make raise
PredictFaults == {"none", "load", "predict"}

\* os.path.exists is not consulted: the load is always attempted
ExistsNotConsulted(st) == FALSE

\* not os.path.exists(model_path)
ArtifactMissing(st) == ~st.model_file

NoPredictions == [predictions |-> <<>>, summary |-> [none |-> TRUE]]

\* predict_demand.  st is the artifact store the path points into, now the
\* time of the call, raw the values the loaded model predicts (one row per
\* future date), ties the sides the two rounded floats fall on, fault the
\* step that raises.  Returns the outcome, the calls made on the artifact and
\* the model in order, and the result dictionary.  joblib.load raises on a
\* path without a file; Prophet.predict raises on a frame without rows.
predict_demand(st, horizon_days, start_date, now, raw, ties, fault) ==
    LET start == IF start_date = <<>> THEN Tomorrow(now) ELSE start_date[1]
        future_dates == FutureDates(start, horizon_days)
        forecast == [i \in DOMAIN future_dates |->
                        [ds |-> future_dates[i]] @@ raw[i]]
        has_weekly == st.model.config.weekly_seasonality
        has_yearly == st.model.config.yearly_seasonality
        predictions == [i \in DOMAIN forecast |->
                           PredictionRow(forecast[i], has_weekly, has_yearly)]
        values == Col(predictions, "yhat")
        total_predicted == SumSeq(values)
        max_demand_idx == ArgMax(values)
        min_demand_idx == ArgMin(values)
        loaded == <<[call |-> "load"]>>
        asked == loaded \o <<[call |-> "predict", dates |-> future_dates]>>
    IN  IF ArtifactMissing(st)
        THEN [status |-> "FileNotFoundError", calls |-> <<>>] @@ NoPredictions
        ELSE IF ~st.model_file \/ fault = "load"
        THEN [status |-> "LoadError", calls |-> loaded] @@ NoPredictions
        ELSE IF horizon_days = 0 \/ fault = "predict"
        THEN [status |-> "PredictError", calls |-> asked] @@ NoPredictions
        ELSE [status |-> "ok", calls |-> asked,
              predictions |-> predictions,
              summary |->
                [horizon_days |-> horizon_days,
                 total_predicted_demand |->
                     Round2([n |-> total_predicted, d |-> 1], ties.total),
                 avg_daily_demand |->
                     Round2([n |-> total_predicted, d |-> horizon_days], ties.avg),
                 peak_demand |-> [date |-> predictions[max_demand_idx].date,
                                  value |-> predictions[max_demand_idx].yhat],
                 low_demand |-> [date |-> predictions[min_demand_idx].date,
                                 value |-> predictions[min_demand_idx].yhat],
                 forecast_date |-> now]]

\* p.get(key, p['yhat']): the default stands in for a missing key only; a key
\* that holds None yields None
GetOrPoint(p, key) == IF key \in DOMAIN p THEN p[key] ELSE <<p.yhat>>

\* get_prediction_intervals, without width_std and the polyfit slope.  A
\* subtraction with a None operand raises TypeError.
get_prediction_intervals(predictions, ties_up) ==
    LET point_forecasts == Col(predictions, "yhat")
        lower_bounds == [i \in DOMAIN predictions |-> GetOrPoint(predictions[i], "yhat_lower")]
        upper_bounds == [i \in DOMAIN predictions |-> GetOrPoint(predictions[i], "yhat_upper")]
        interval_widths == [i \in DOMAIN predictions |-> upper_bounds[i][1] - lower_bounds[i][1]]
        widest == interval_widths[ArgMax(interval_widths)]
        narrowest == interval_widths[ArgMin(interval_widths)]
        highest == point_forecasts[ArgMax(point_forecasts)]
        lowest == point_forecasts[ArgMin(point_forecasts)]
    IN  IF predictions = <<>>
        THEN [status |-> "ValueError", interval_widths |-> <<>>]
        ELSE IF \E i \in DOMAIN predictions : lower_bounds[i] = <<>> \/ upper_bounds[i] = <<>>
        THEN [status |-> "TypeError", interval_widths |-> <<>>]
        ELSE [status |-> "ok",
              interval_widths |-> interval_widths,
              interval_statistics |->
                [avg_width |-> Round2([n |-> SumSeq(interval_widths),
                                       d |-> Len(interval_widths)], ties_up),
                 max_width |-> Round2([n |-> widest, d |-> 1], ties_up),
                 min_width |-> Round2([n |-> narrowest, d |-> 1], ties_up)],
              forecast_range |->
                [min_predicted |-> Round2([n |-> lowest, d |-> 1], ties_up),
                 max_predicted |-> Round2([n |-> highest, d |-> 1], ties_up),
                 range_span |-> Round2([n |-> highest - lowest, d |-> 1], ties_up)]]

\* a model path 'dir/prophet_<name>.pkl', as its directory and its name part
ModelPath(dir, name) == [dir |-> dir, name |-> name]

\* os.path.basename(model_path).replace('prophet_', '').replace('.pkl', ''):
\* the directory is dropped
SkuOfPath(model_path) == model_path.name

\* d[k] = v on a dictionary
Put(d, k, v) == [x \in DOMAIN d \cup {k} |-> IF x = k THEN v ELSE d[x]]

EmptyDict == [x \in {} |-> x]

\* the loop of batch_predict from position i on: a prediction is stored under
\* the sku of its path, an exception under the path itself.  files gives the
\* artifact store behind a path, raising the paths whose model raises in
\* predict, raw the rows a model predicts.
RECURSIVE BatchLoop(_, _, _, _, _, _, _, _, _)
BatchLoop(model_paths, i, acc, files, raising, raw, horizon_days, start_date, now) ==
    IF i > Len(model_paths) THEN acc
    ELSE LET model_path == model_paths[i]
             sku == SkuOfPath(model_path)
             prediction == predict_demand(files[model_path], horizon_days, start_date, now, raw,
                                          [total |-> TRUE, avg |-> TRUE],
                                          IF model_path \in raising THEN "predict" ELSE "none")
             next == IF prediction.status = "ok"
                     THEN [acc EXCEPT !.results = Put(acc.results, sku, prediction),
                                      !.calls = Append(acc.calls, model_path)]
                     ELSE [acc EXCEPT !.errors = Put(acc.errors, model_path, prediction.status),
                                      !.calls = Append(acc.calls, model_path)]
         IN  BatchLoop(model_paths, i + 1, next, files, raising, raw, horizon_days,
                       start_date, now)

\* batch_predict: results, errors and the summary; calls lists the paths
\* handed to predict_demand in order
batch_predict(model_paths, files, raising, raw, horizon_days, start_date, now) ==
    LET done == BatchLoop(model_paths, 1,
                          [results |-> EmptyDict, errors |-> EmptyDict, calls |-> <<>>],
                          files, raising, raw, horizon_days, start_date, now)
    IN  [status |-> "ok", success |-> TRUE,
         results |-> done.results, errors |-> done.errors, calls |-> done.calls,
         summary |->
           [total_models |-> Len(model_paths),
            successful_predictions |-> Cardinality(DOMAIN done.results),
            failed_predictions |-> Cardinality(DOMAIN done.errors),
            success_rate |-> IF model_paths = <<>> THEN [n |-> 0, d |-> 1]
                             ELSE [n |-> Cardinality(DOMAIN done.results) * 100,
                                   d |-> Len(model_paths)],
            batch_date |-> now]]

\* actual_df.join(pred_df[['yhat']], how='inner') on the datetime index: one
\* row for every pairing of an actual row with a prediction row of the same
\* datetime, in the order of the actuals
RECURSIVE JoinFrom(_, _, _)
JoinFrom(actual_df, pred_df, i) ==
    IF i > Len(actual_df) THEN <<>>
    ELSE LET a == actual_df[i]
             hits == SelectSeq(pred_df, LAMBDA r : r.date = a.date)
         IN  [k \in DOMAIN hits |->
                 [date |-> a.date, actual |-> a.actual, yhat |-> hits[k].yhat]]
             \o JoinFrom(actual_df, pred_df, i + 1)

JoinInner(actual_df, pred_df) == JoinFrom(actual_df, pred_df, 1)

\* comparison_df.dropna(): a joined row with a null actual is dropped (the
\* yhat of a prediction row is a number)
DropNaRows(comparison_df) == SelectSeq(comparison_df, LAMBDA r : r.actual # <<>>)

\* np.mean(np.abs((actual - predicted) / (actual + 1e-8))) * 100 for actuals
\* >= 0 and whole quantities.  An entry with actual 0 contributes
\* |predicted| * 1e8; an entry with actual a > 0 contributes |a - predicted| / a
\* less a relative 1e-8 / a.  The value is kept as the pair of blown, the sum
\* of |predicted| over the entries with actual 0, and of rest, the mean over
\* ALL entries of the other ratios as an exact fraction:
\*     mape = 100 * (rest.n / rest.d) + 100 * 1e8 * blown / len.
MapeEpsilon(actual_values, predicted_values) ==
    LET idx == MapeMask(actual_values)
        zeros == SelectSeq([i \in DOMAIN actual_values |-> i],
                           LAMBDA i : actual_values[i] = 0)
        den == LcmSet({Abs(actual_values[idx[k]]) : k \in DOMAIN idx})
        terms == [k \in DOMAIN idx |->
                    Abs(actual_values[idx[k]] - predicted_values[idx[k]])
                        * (den \div Abs(actual_values[idx[k]]))]
    IN  [blown |-> SumSeq([k \in DOMAIN zeros |-> Abs(predicted_values[zeros[k]])]),
         rest |-> [n |-> SumSeq(terms), d |-> Len(actual_values) * den],
         len |-> Len(actual_values)]

\* the forecast quality ladder of analyze_forecast_accuracy.  With blown > 0
\* the mape is at least 1e10 / len, far above 50.  With blown = 0 the 1e-8
\* lowers the mape by less than 1e-6 of itself, which moves it across none of
\* 10, 20, 50: it never raises it, and a mape above a threshold is above it by
\* at least 1 / rest.d.
ForecastQuality(mape) ==
    IF mape.blown > 0 THEN "Poor"
    ELSE IF PctLeq(mape.rest, ExcellentMape) THEN "Excellent"
    ELSE IF PctLeq(mape.rest, GoodMape) THEN "Good"
    ELSE IF PctLeq(mape.rest, ReasonableMape) THEN "Fair"
    ELSE "Poor"

\* analyze_forecast_accuracy, with the metrics mae and mape; mse, rmse, smape,
\* bias, correlation and direction accuracy are further values computed from
\* the same two vectors.  pd.DataFrame([]) has no column: pred_df['date']
\* raises KeyError.
analyze_forecast_accuracy(actual_data, predicted_data) ==
    LET pred_df == [i \in DOMAIN predicted_data |->
                       [date |-> ToDatetime(predicted_data[i].date),
                        yhat |-> predicted_data[i].yhat]]
        actual_df == [i \in DOMAIN actual_data |->
                         [date |-> ToDatetime(actual_data[i].date),
                          actual |-> actual_data[i].actual]]
        comparison_df == DropNaRows(JoinInner(actual_df, pred_df))
        actual_values == [i \in DOMAIN comparison_df |-> comparison_df[i].actual[1]]
        predicted_values == Col(comparison_df, "yhat")
        days == [i \in DOMAIN comparison_df |-> comparison_df[i].date.day]
        mape == MapeEpsilon(actual_values, predicted_values)
        failed(status) == [status |-> status, actual_values |-> <<>>,
                           predicted_values |-> <<>>]
    IN  IF predicted_data = <<>> THEN failed("KeyError")
        ELSE IF comparison_df = <<>> THEN failed("NoOverlap")
        ELSE [status |-> "ok",
              actual_values |-> actual_values,
              predicted_values |-> predicted_values,
              evaluation_period |->
                [start_date |-> days[ArgMin(days)],
                 end_date |-> days[ArgMax(days)],
                 days_evaluated |-> Len(comparison_df)],
              metrics |->
                [mae |-> RoundFrac(MaeFraction(actual_values, predicted_values), 1),
                 mape |-> mape],
              summary |->
                [forecast_quality |-> ForecastQuality(mape),
                 total_actual |-> SumSeq(actual_values),
                 total_predicted |-> SumSeq(predicted_values)]]

\* ------------------------------------------------------------------ inputs
QtyVals == {-1, 0, 2, 5}

QtyOpt == {<<>>} \cup {<<q>> : q \in QtyVals}

SmallRows == [ds : 0..MaxDate, y : QtyOpt]

\* every short input: unsorted, duplicate dates and nulls included
SmallInputs == UNION {[1..n -> SmallRows] : n \in 0..MaxRows}

\* quantities in the millions, where the fourth decimal of a percentage moves
ScaledInputs ==
    {<<[ds |-> 0, y |-> <<2500000>>]>>,
     <<[ds |-> 1, y |-> <<2500000>>], [ds |-> 2, y |-> <<0>>]>>}

\* n records, stride days apart, quantities following a repeated pattern
Regular(n, stride, pat) ==
    [i \in 1..n |-> [ds |-> (i - 1) * stride, y |-> pat[((i - 1) % Len(pat)) + 1]]]

LongShapes ==
    {<<2, 20>>, <<2, 21>>, <<2, 22>>, <<2, 29>>, <<2, 30>>, <<2, 31>>, <<2, 40>>,
     <<2, 89>>, <<2, 90>>,
     <<2, 364>>, <<2, 365>>, <<2, 366>>,
     <<15, 2>>, <<16, 2>>, <<29, 1>>, <<30, 1>>, <<31, 1>>, <<34, 1>>, <<35, 1>>}

LongPatterns ==
    {<< <<2>> >>, << <<0>> >>, << <<2>>, <<0>>, <<-1>> >>, << <<2>>, <<-1>>, <<>> >>,
     << <<0>>, <<2>> >>}

LongInputs == {Regular(sh[1], sh[2], pat) : sh \in LongShapes, pat \in LongPatterns}

\* rows that were not aggregated by date: day 27 is recorded twice, and the
\* prepared series of 36 rows is split between the two rows of that day
DuplicateInputs == {Regular(35, 1, << <<2>> >>) \o <<[ds |-> 27, y |-> <<5>>]>>}

\* the rows of test_prepare_data_with_nulls: 5 daily rows, 2 of them null
NullTestInput ==
    <<[ds |-> 0, y |-> <<10>>], [ds |-> 1, y |-> <<>>], [ds |-> 2, y |-> <<15>>],
      [ds |-> 3, y |-> <<>>], [ds |-> 4, y |-> <<20>>]>>

Inputs ==
    SmallInputs \cup ScaledInputs \cup LongInputs \cup DuplicateInputs \cup {NullTestInput}

PredVals == {-1, 1, 4, 5}

Cycles == UNION {[1..n -> PredVals] : n \in 1..MaxCycle} \cup {<<2249999>>}

UniqueDates(rows) == Cardinality(DsSet(rows)) = Len(rows)

\* one row of the frame returned by Prophet.predict, in thousandths
RawRow(y, lo, hi) ==
    [yhat |-> y, yhat_lower |-> lo, yhat_upper |-> hi,
     trend |-> 0, weekly |-> 0, yearly |-> 0]

\* rows above 0, below 0 and across 0, rows without one or both bounds, a
\* point estimate below its lower bound, a NaN point estimate
RawRows ==
    {RawRow(<<2000>>, <<1000>>, <<3000>>),
     RawRow(<<-1500>>, <<-3000>>, <<-500>>),
     RawRow(<<500>>, <<-1000>>, <<2000>>),
     RawRow(<<2000>>, <<>>, <<>>),
     RawRow(<<1005>>, <<1000>>, <<>>),
     RawRow(<<1000>>, <<2000>>, <<3000>>),
     RawRow(<<>>, <<0>>, <<10>>)}

Forecasts(horizon_days) == [1..horizon_days -> RawRows]

\* start_date: not supplied, a date, a datetime within a day
StartDates == {<<>>, <<Timestamp(1, 0)>>, <<Timestamp(1, 43200)>>}

\* the time of the call: the last second of a day, the first of the next
Nows == {Timestamp(0, 86399), Timestamp(1, 0)}

Ties == [total : BOOLEAN, avg : BOOLEAN]

\* prediction lists written by a caller: empty, without bounds, with one bound
HandMadePredictions ==
    {<<>>,
     <<[date |-> 0, yhat |-> 2000]>>,
     <<[date |-> 0, yhat |-> 2000, yhat_upper |-> <<3000>>],
       [date |-> 1, yhat |-> 1000, yhat_lower |-> <<500>>]>>}

\* actuals handed to analyze_forecast_accuracy: whole quantities >= 0 or
\* null, dates in any order and possibly repeated
ActualVals == {<<>>, <<0>>, <<2>>}

ActualRows == [date : 0..MaxDate, actual : ActualVals]

ActualInputs == UNION {[1..n -> ActualRows] : n \in 0..MaxRows}

PointVals == {0, 1, 2}

\* predictions as predict_demand lists them: consecutive days, yhat >= 0
PredictedInputs ==
    {[i \in 1..Len(v) |-> [date |-> s + i - 1, yhat |-> v[i]]] :
        s \in 0..1, v \in UNION {[1..m -> PointVals] : m \in 0..MaxRows}}

\* the path of the item of the store, the path of a second item, and a path
\* of the first item's name in another directory
ItemPath == ModelPath("models", "A")

Paths == {ItemPath, ModelPath("models", "B"), ModelPath("old", "A")}

PathLists == UNION {[1..n -> Paths] : n \in 0..MaxRows}

\* ------------------------------------------------------------------- state
VARIABLES df, prepared, result, store, service

vars == <<df, prepared, result, store, service>>

NotPrepared == [status |-> "none", rows |-> <<>>]

NoResult == [op |-> "none"]

EmptyStore == [model |-> NoModel, metrics |-> NoMetrics, model_file |-> FALSE,
               metrics_file |-> FALSE]

\* no request is in flight in the service
Idle == [pc |-> "idle"]

\* the service before its first request: no training run was started, none
\* is waiting, and the artifacts on disk stem from no run
NoService ==
    [runs |-> 0, queued |-> 0, model_run |-> 0, metrics_run |-> 0, predict |-> Idle]

Init ==
    /\ df \in Inputs
    /\ prepared = NotPrepared
    /\ result = NoResult
    /\ store = EmptyStore
    /\ service = NoService

\* a step that raises yields no prediction: the predicted values matter only
\* to a run without fault
CyclesFor(fault) == IF fault = "none" THEN Cycles ELSE {<<1>>}

\* nor do they matter to a training that the gate refuses
TrainCyclesFor(rows, fault) ==
    IF prepare_data(rows).status = "ok" /\ ~InsufficientRows(prepare_data(rows).rows)
    THEN CyclesFor(fault) ELSE {<<1>>}

\* a caller runs prepare_data on its rows
PrepareData ==
    /\ result = NoResult
    /\ prepared' = prepare_data(df)
    /\ result' = [op |-> "prepare_data", status |-> prepared'.status]
    /\ UNCHANGED <<df, store, service>>

\* a caller configures a model for the series it has prepared
CreateProphetModel ==
    /\ result.op = "prepare_data"
    /\ prepared.status = "ok"
    /\ result' = [op |-> "create_prophet_model", status |-> "ok",
                  config |-> create_prophet_model(prepared.rows)]
    /\ UNCHANGED <<df, prepared, store, service>>

\* a caller runs train_prophet_model on its rows
TrainProphetModel ==
    /\ result = NoResult
    /\ \E fault \in Faults \ {"mlflow"} : \E cycle \in TrainCyclesFor(df, fault) :
         result' = [op |-> "train_prophet_model", fault |-> fault]
                   @@ train_prophet_model(df, cycle, fault)
    /\ UNCHANGED <<df, prepared, store, service>>

\* a caller runs evaluate_model on the series it has prepared, with the model
\* fitted on that series
EvaluateModel ==
    /\ result.op = "prepare_data"
    /\ prepared.status = "ok"
    /\ \E fault \in Faults \ {"fit", "mlflow"} : \E cycle \in CyclesFor(fault) :
         LET model == Fit(create_prophet_model(prepared.rows), prepared.rows)
             ev == evaluate_model(model, prepared.rows, cycle, fault)
         IN  result' = [op |-> "evaluate_model", fault |-> fault,
                        status |-> IF ev.raised THEN "EvaluationError" ELSE "ok",
                        got |-> Len(prepared.rows), model |-> model,
                        metrics |-> ev.metrics, calls |-> ev.calls,
                        temp_model |-> ev.temp_model, score |-> ev.score]
    /\ UNCHANGED <<df, prepared, store, service>>

\* the service trains the item whose sales table holds df: joblib.dump of the
\* model and of the metrics, then the experiment log
TrainModelAsync ==
    /\ result = NoResult
    /\ UniqueDates(df)
    /\ \E fault \in Faults : \E cycle \in TrainCyclesFor(df, fault) :
         LET r == train_model_async(df, cycle, fault)
         IN  /\ store' = IF r.status = "ok"
                         THEN [model |-> r.model, metrics |-> r.metrics,
                               model_file |-> TRUE, metrics_file |-> TRUE]
                         ELSE store
             /\ result' = [op |-> "train_model_async", fault |-> fault] @@
                          (IF r.status = "ok" /\ fault = "mlflow"
                           THEN [r EXCEPT !.status = "MlflowError"] ELSE r)
    /\ UNCHANGED <<df, prepared, service>>

\* a prepared series as a caller holds it: every quantity is present
AsInput(rows) == [i \in DOMAIN rows |-> [ds |-> rows[i].ds, y |-> <<rows[i].y>>]]

\* a caller runs prepare_data on the series prepare_data has returned
PrepareDataAgain ==
    /\ result.op = "prepare_data"
    /\ prepared.status = "ok"
    /\ LET again == prepare_data(AsInput(prepared.rows))
       IN  result' = [op |-> "prepare_data_again", status |-> again.status,
                      rows |-> again.rows]
    /\ UNCHANGED <<df, prepared, store, service>>

\* a caller cross-validates the model fitted on the series it has prepared
CrossValidateModel ==
    /\ result.op = "prepare_data"
    /\ prepared.status = "ok"
    /\ \E fault \in {"none", "cv"} :
         result' = [op |-> "cross_validate_model", fault |-> fault,
                    data_span |-> SpanDays(prepared.rows)]
                   @@ cross_validate_model(prepared.rows, fault)
    /\ UNCHANGED <<df, prepared, store, service>>

Next ==
    \/ PrepareData
    \/ PrepareDataAgain
    \/ CreateProphetModel
    \/ CrossValidateModel
    \/ TrainProphetModel
    \/ EvaluateModel
    \/ TrainModelAsync

Spec == Init /\ [][Next]_vars

\* ------------------------------------------------- the prediction pipeline
\* the artifacts of a model trained on 30 daily records
SavedSeries == prepare_data(Regular(30, 1, << <<2>> >>)).rows

SavedStore ==
    [model |-> Fit(create_prophet_model(SavedSeries), SavedSeries),
     metrics |-> [evaluation_date |-> "then"],
     model_file |-> TRUE, metrics_file |-> TRUE]

\* the service directory holds the artifacts of the item or it does not
InitInference ==
    /\ df = <<>>
    /\ prepared = NotPrepared
    /\ result = NoResult
    /\ store \in {EmptyStore, SavedStore}
    /\ service = NoService

\* the forecast matters only to a call that gets as far as using it; over
\* the long horizon the model predicts the same row for every day
ForecastsFor(st, horizon_days, fault) ==
    IF ~st.model_file \/ fault # "none" THEN {<<>>}
    ELSE IF horizon_days > MaxHorizon
    THEN {[i \in 1..horizon_days |-> r] : r \in RawRows}
    ELSE Forecasts(horizon_days)

\* a caller runs predict_demand on the path of the item's model
PredictDemand ==
    /\ result = NoResult
    /\ \E horizon_days \in 0..MaxHorizon \cup {ExampleHorizon},
          start_date \in StartDates, now \in Nows,
          fault \in PredictFaults, ties \in Ties :
         \E raw \in ForecastsFor(store, horizon_days, fault) :
            result' = [op |-> "predict_demand", fault |-> fault,
                       horizon_days |-> horizon_days, start_date |-> start_date,
                       now |-> now, raw |-> raw]
                      @@ predict_demand(store, horizon_days, start_date, now, raw,
                                        ties, fault)
    /\ UNCHANGED <<df, prepared, store, service>>

\* a caller runs get_prediction_intervals on the predictions predict_demand
\* has returned, or on a list of its own
GetPredictionIntervals ==
    /\ \/ result.op = "predict_demand" /\ result.status = "ok"
       \/ result = NoResult
    /\ \E ties_up \in BOOLEAN :
         \E predictions \in (IF result = NoResult THEN HandMadePredictions
                              ELSE {result.predictions}) :
            result' = [op |-> "get_prediction_intervals",
                       predictions |-> predictions,
                       from_predict_demand |-> result # NoResult]
                      @@ get_prediction_intervals(predictions, ties_up)
    /\ UNCHANGED <<df, prepared, store, service>>

\* a caller compares actuals with a list of predictions
AnalyzeForecastAccuracy ==
    /\ result = NoResult
    /\ \E actual_data \in ActualInputs, predicted_data \in PredictedInputs :
         result' = [op |-> "analyze_forecast_accuracy",
                    actual_data |-> actual_data, predicted_data |-> predicted_data]
                   @@ analyze_forecast_accuracy(actual_data, predicted_data)
    /\ UNCHANGED <<df, prepared, store, service>>

\* a caller runs batch_predict on a list of paths: the item's path leads to
\* the store, each other path to a saved model or to no file
BatchPredict ==
    /\ result = NoResult
    /\ \E model_paths \in PathLists, present \in SUBSET (Paths \ {ItemPath}),
          raising \in SUBSET Paths, horizon_days \in 0..1, now \in Nows :
         LET files == [p \in Paths |-> IF p = ItemPath THEN store
                                       ELSE IF p \in present THEN SavedStore
                                       ELSE EmptyStore]
             raw == [d \in 1..horizon_days |-> RawRow(<<2000>>, <<1000>>, <<3000>>)]
         IN  result' = [op |-> "batch_predict", model_paths |-> model_paths,
                        present |-> present, raising |-> raising,
                        horizon_days |-> horizon_days]
                       @@ batch_predict(model_paths, files, raising, raw, horizon_days,
                                        <<>>, now)
    /\ UNCHANGED <<df, prepared, store, service>>

NextInference ==
    \/ PredictDemand
    \/ BatchPredict
    \/ GetPredictionIntervals
    \/ AnalyzeForecastAccuracy

SpecInference == InitInference /\ [][NextInference]_vars

\* ------------------------------------------------------------- the service
\* The handlers of app.py run on one event loop (uvicorn.run(app) of app.py).
\* A handler keeps the loop until it awaits something that suspends it.  A
\* training asked for by /train is a background task: it runs after the
\* response was sent, as a step of its own.  service.runs counts the calls of
\* train_model_async; model_run and metrics_run are the runs that wrote the
\* two files on disk.
MaxRuns == 2

\* the sales tables of the item: none, 5 daily records, 30 daily records
ServiceInputs == {<<>>, Regular(5, 1, << <<2>> >>), Regular(30, 1, << <<2>> >>)}

ServiceFaults == {"none", "fit", "mlflow"}

ServiceCycles == {<<1>>, <<4>>}

ServiceRawRows ==
    {RawRow(<<2000>>, <<1000>>, <<3000>>),
     RawRow(<<1005>>, <<-1000>>, <<>>),
     RawRow(<<>>, <<0>>, <<10>>)}

\* model_exists: os.path.exists(model_path)
model_exists(st) == st.model_file

\* joblib.dump(model, model_path); joblib.dump(metrics, metrics_path): reached
\* when train_prophet_model has returned
SaveArtifacts(st, r) ==
    IF r.status = "ok"
    THEN [model |-> r.model, metrics |-> r.metrics,
          model_file |-> TRUE, metrics_file |-> TRUE]
    ELSE st

\* one call of train_model_async by the service: the store and the counters
\* after it, and the status the caller sees (the experiment log raises after
\* the artifacts were written)
RunTraining(st, sv, db, cycle, fault) ==
    LET run == sv.runs + 1
        after(r) ==
            [store |-> SaveArtifacts(st, r),
             sv |-> [sv EXCEPT !.runs = run,
                               !.model_run = IF r.status = "ok" THEN run ELSE @,
                               !.metrics_run = IF r.status = "ok" THEN run ELSE @],
             status |-> IF r.status = "ok" /\ fault = "mlflow" THEN "MlflowError"
                        ELSE r.status]
    IN  CHOOSE t \in {after(r) : r \in {train_model_async(db, cycle, fault)}} : TRUE

\* max(0, round(v, 2)) of the point estimate, in hundredths: a NaN leaves 0
EndpointPoint(v, ties_up) ==
    IF v = <<>> THEN 0
    ELSE IF v[1] <= 0 THEN 0
    ELSE Round2([n |-> v[1], d |-> 1], ties_up)

\* max(0, round(v, 2)) if pd.notna(v) else 0
EndpointBound(v, ties_up) == EndpointPoint(v, ties_up)

\* a point of predict_endpoint after which the handler is suspended in favour
\* of the other requests: the load of the model, were it awaited
SuspendedAfterLoad == {"load"}

\* the steps of predict_endpoint after which the handler is suspended: its
\* only await is that of train_model_async, a coroutine that awaits nothing,
\* so the handler runs from its first line to its response
SuspensionPoints == {}

\* one step of predict_endpoint.  h holds the request (horizon_days, raw,
\* ties_up, now, cycle, fault, predict_fault), the handler's locals and, as
\* store and sv, the artifacts and counters as they are when the step runs.
PredictStep(h) ==
    CASE h.pc = "check" ->
           [h EXCEPT !.found = model_exists(h.store),
                     !.pc = IF model_exists(h.store) THEN "load" ELSE "train"]
      [] h.pc = "train" ->
           LET after(t) ==
                   [h EXCEPT !.store = t.store, !.sv = t.sv, !.trained = TRUE,
                             !.status = IF t.status = "ok" THEN @ ELSE "TrainFailed",
                             !.cause = IF t.status = "ok" THEN @ ELSE t.status,
                             !.pc = IF t.status = "ok" THEN "load" ELSE "done"]
           IN  CHOOSE n \in {after(t) : t \in {RunTraining(h.store, h.sv, h.db,
                                                            h.cycle, h.fault)}} : TRUE
      [] h.pc = "load" ->
           IF ~h.store.model_file
           THEN [h EXCEPT !.status = "PredictionFailed", !.cause = "load",
                          !.pc = "done"]
           ELSE [h EXCEPT !.model = h.store.model, !.model_run = h.sv.model_run,
                          !.pc = "forecast"]
      [] h.pc = "forecast" ->
           IF h.horizon_days = 0 \/ h.predict_fault
           THEN [h EXCEPT !.status = "PredictionFailed", !.cause = "predict",
                          !.pc = "done"]
           ELSE LET future_dates == FutureDates(Tomorrow(h.now), h.horizon_days)
                IN  [h EXCEPT !.forecast =
                                 [i \in DOMAIN future_dates |->
                                    [date |-> Strftime(future_dates[i]),
                                     yhat |-> EndpointPoint(h.raw[i].yhat, h.ties_up),
                                     yhat_lower |->
                                         EndpointBound(h.raw[i].yhat_lower, h.ties_up),
                                     yhat_upper |->
                                         EndpointBound(h.raw[i].yhat_upper, h.ties_up)]],
                              !.pc = "metrics"]
      [] h.pc = "metrics" ->
           [h EXCEPT !.metrics = IF h.store.metrics_file THEN h.store.metrics
                                 ELSE EmptyDict,
                     !.metrics_run = IF h.store.metrics_file THEN h.sv.metrics_run
                                     ELSE 0,
                     !.status = "ok", !.pc = "done"]

\* predict_endpoint from the step h.pc on, up to its response or to the step
\* after which it is suspended
RECURSIVE RunPredict(_)
RunPredict(h) ==
    CHOOSE out \in {IF next.pc = "done" \/ h.pc \in SuspensionPoints THEN next
                    ELSE RunPredict(next) : next \in {PredictStep(h)}} : TRUE

\* delete_model: each of the two files is removed if it exists; 404 when
\* there was none
delete_model(st) ==
    [store |-> [model |-> NoModel, metrics |-> NoMetrics,
                model_file |-> FALSE, metrics_file |-> FALSE],
     status |-> IF st.model_file \/ st.metrics_file THEN "ok" ELSE "NotFound",
     deleted_files |-> (IF st.model_file THEN <<"model">> ELSE <<>>)
                       \o (IF st.metrics_file THEN <<"metrics">> ELSE <<>>)]

\* the outcome of a training matters only to a request that trains, the
\* forecast only to a request without fault
TrainingsFor(st, sv) ==
    IF sv.predict = Idle /\ ~model_exists(st)
    THEN ServiceFaults \X ServiceCycles ELSE {<<"none", <<1>>>>}

ServiceForecasts(horizon_days, predict_fault) ==
    IF predict_fault THEN {[i \in 1..horizon_days |-> RawRow(<<2000>>, <<1000>>, <<3000>>)]}
    ELSE [1..horizon_days -> ServiceRawRows]

InitService ==
    /\ df \in ServiceInputs
    /\ prepared = NotPrepared
    /\ result = NoResult
    /\ store = EmptyStore
    /\ service = NoService

\* POST /train: without retrain an existing model is left alone, otherwise
\* the training is queued as a background task
TrainEndpoint ==
    /\ service.runs + service.queued < MaxRuns
    /\ \E retrain \in BOOLEAN :
         IF model_exists(store) /\ ~retrain
         THEN /\ result' = [op |-> "train_endpoint", status |-> "exists"]
              /\ UNCHANGED service
         ELSE /\ result' = [op |-> "train_endpoint", status |-> "training_in_progress"]
              /\ service' = [service EXCEPT !.queued = @ + 1]
    /\ UNCHANGED <<df, prepared, store>>

\* a queued training runs: train_model_async; its failure is logged only
BackgroundTrain ==
    /\ service.queued > 0
    /\ \E fault \in ServiceFaults, cycle \in ServiceCycles :
         \E t \in {RunTraining(store, service, df, cycle, fault)} :
             /\ store' = t.store
             /\ service' = [t.sv EXCEPT !.queued = @ - 1]
    /\ UNCHANGED <<df, prepared, result>>

\* POST /predict: a new request starts, or the suspended one goes on
PredictEndpoint ==
    /\ service.predict # Idle \/ model_exists(store) \/ service.runs + service.queued < MaxRuns
    /\ \E horizon_days \in 0..1, ties_up \in BOOLEAN, now \in Nows,
          training \in TrainingsFor(store, service), predict_fault \in BOOLEAN :
         \E raw \in ServiceForecasts(horizon_days, predict_fault) :
            LET begun == [pc |-> "check", horizon_days |-> horizon_days, raw |-> raw,
                          ties_up |-> ties_up, now |-> now, db |-> df,
                          fault |-> training[1], cycle |-> training[2],
                          predict_fault |-> predict_fault,
                          found |-> FALSE, trained |-> FALSE,
                          model |-> NoModel, model_run |-> 0,
                          forecast |-> <<>>, metrics |-> EmptyDict, metrics_run |-> 0,
                          status |-> "running", cause |-> "none"]
                at == IF service.predict = Idle THEN begun ELSE service.predict
            IN  \E h \in {RunPredict(at @@ [store |-> store,
                                             sv |-> [service EXCEPT !.predict = Idle]])} :
                /\ store' = h.store
                /\ service' = [h.sv EXCEPT !.predict = IF h.pc = "done" THEN Idle
                                                       ELSE [k \in DOMAIN begun |-> h[k]]]
                /\ result' = IF h.pc = "done"
                             THEN [op |-> "predict_endpoint", status |-> h.status,
                                   cause |-> h.cause, found |-> h.found,
                                   trained |-> h.trained,
                                   horizon_days |-> h.horizon_days,
                                   predict_fault |-> h.predict_fault,
                                   forecast |-> h.forecast, metrics |-> h.metrics,
                                   model |-> h.model, model_run |-> h.model_run,
                                   metrics_run |-> h.metrics_run,
                                   queued |-> h.sv.queued, runs |-> h.sv.runs]
                             ELSE result
    /\ UNCHANGED <<df, prepared>>

\* DELETE /models/{sku}
DeleteModel ==
    /\ LET d == delete_model(store)
       IN  /\ store' = d.store
           /\ result' = [op |-> "delete_model", status |-> d.status,
                         deleted_files |-> d.deleted_files]
           /\ service' = [service EXCEPT !.model_run = 0, !.metrics_run = 0]
    /\ UNCHANGED <<df, prepared>>

NextService ==
    \/ TrainEndpoint
    \/ BackgroundTrain
    \/ PredictEndpoint
    \/ DeleteModel

SpecService == InitService /\ [][NextService]_vars

\* ------------------------------------------------------------------ claims
PrepareDone == result.op = "prepare_data"

\* one row per day from lo on, none negative
Dense(rows, lo) == \A i \in DOMAIN rows : rows[i].ds = lo + i - 1 /\ rows[i].y >= 0

\* C1 as stated: for every non-empty input with unique dates the series
\* returned by prepare_data has one row per calendar day from the earliest to
\* the latest date of the input, length (max - min) + 1, consecutive dates,
\* no negative quantity.
C1_InputRange ==
    (PrepareDone /\ df # <<>> /\ UniqueDates(df) /\ prepared.status = "ok")
        => /\ Len(prepared.rows) = MaxDs(df) - MinDs(df) + 1
           /\ Dense(prepared.rows, MinDs(df))

\* C1 amended: for every input with unique dates and at least one non-null
\* quantity, prepare_data returns one row per calendar day from the earliest
\* to the latest date among the rows with a non-null quantity: its length is
\* (max - min) + 1 over those rows, the dates are consecutive and strictly
\* increasing, and no quantity is negative.
C1_PreparedDense ==
    (PrepareDone /\ UniqueDates(df) /\ DropNa(df) # <<>>)
        => /\ prepared.status = "ok"
           /\ Len(prepared.rows) = MaxDs(DropNa(df)) - MinDs(DropNa(df)) + 1
           /\ Dense(prepared.rows, MinDs(DropNa(df)))

\* prepare_data has filled a gap of an input that also held a null and a
\* negative quantity
C1_Witness ==
    /\ PrepareDone /\ UniqueDates(df) /\ prepared.status = "ok"
    /\ Len(prepared.rows) > Len(DropNa(df))
    /\ Len(DropNa(df)) < Len(df)
    /\ \E i \in DOMAIN df : df[i].y = <<-1>>

TrainDone == result.op = "train_prophet_model"

\* the rows are n records on consecutive days, each with a quantity
ConsecutiveDaily(rows, n) ==
    /\ Len(rows) = n
    /\ \A i \in DOMAIN rows : rows[i].ds = rows[1].ds + i - 1 /\ rows[i].y # <<>>

HasCall(calls, name) == \E i \in DOMAIN calls : calls[i].call = name

\* C2: train_prophet_model fails with the insufficient-data error, before a
\* model is configured or fitted, exactly when the prepared series has fewer
\* than 30 rows; 29 consecutive daily records fail, 30 succeed (no step of the
\* primitive raising) with test_samples >= 0.
C2_TrainGate ==
    TrainDone =>
        LET prep == prepare_data(df)
        IN  /\ (result.status = "InsufficientData")
                 <=> (prep.status = "ok" /\ Len(prep.rows) < 30)
            /\ result.status = "InsufficientData"
                 => (result.calls = <<>> /\ result.model = NoModel /\ result.got = Len(prep.rows))
            /\ ConsecutiveDaily(df, 29) => result.status = "InsufficientData"
            /\ (ConsecutiveDaily(df, 30) /\ result.fault = "none")
                 => (result.status = "ok" /\ result.metrics.test_samples >= 0)

\* 29 consecutive daily records have been refused by the gate
C2_Witness ==
    /\ TrainDone /\ ConsecutiveDaily(df, 29)
    /\ result.status = "InsufficientData" /\ result.got = 29

\* C3: whenever the caller supplies fewer than 30 (date, quantity) records,
\* however far apart their dates are, the fit step is never reached and the
\* call fails with the insufficient-data error.
C3_RecordGate ==
    (/\ result.op \in {"train_prophet_model", "train_model_async"}
     /\ df # <<>> /\ DropNa(df) = df /\ Len(df) < 30)
        => (~HasCall(result.calls, "fit") /\ result.status = "InsufficientData")

\* a step of evaluate_model raised in the run that produced result
EvaluationFailed ==
    /\ result.op \in {"train_prophet_model", "evaluate_model"}
    /\ result.status \notin {"ValueError", "InsufficientData"}
    /\ \/ result.fault \in {"eval_predict", "eval_metrics"}
       \/ result.fault = "eval_fit" /\ result.got - (4 * result.got) \div 5 >= 7

\* C4: whenever a step inside evaluate_model fails (holdout refit, prediction
\* or metric computation) evaluate_model returns a bundle holding only an
\* error field and a timestamp, and train_prophet_model still returns the
\* model fitted on the full prepared series together with that bundle.
C4_EvaluationNeverAborts ==
    EvaluationFailed =>
        /\ DOMAIN result.metrics = {"error", "evaluation_date"}
        /\ result.status = "ok"
        /\ TrainDone => /\ result.model # NoModel
                        /\ result.model.fitted_on = prepare_data(df).rows

\* the holdout refit raised inside train_prophet_model, which returned anyway
C4_Witness ==
    /\ TrainDone /\ EvaluationFailed /\ result.fault = "eval_fit"
    /\ result.status = "ok" /\ "error" \in DOMAIN result.metrics

\* the run that produced result went through evaluate_model
Evaluated ==
    /\ result.op \in {"train_prophet_model", "evaluate_model"}
    /\ result.status \notin {"ValueError", "InsufficientData", "FitError"}

\* the calls made by evaluate_model in the run that produced result
EvalCalls == IF TrainDone THEN SubSeq(result.calls, 3, Len(result.calls)) ELSE result.calls

\* the prepared series handed to evaluate_model
EvalSeries == result.model.fitted_on

StrictlyIncreasing(rows) == \A i \in 1..(Len(rows) - 1) : rows[i].ds < rows[i + 1].ds

C6_HoldoutOrInSample ==
    Evaluated =>
        LET N == Len(EvalSeries)
            t == N - (4 * N) \div 5
            scoredOk == "test_samples" \in DOMAIN result.metrics
        IN  /\ t < 7 => /\ ~HasCall(EvalCalls, "fit")
                        /\ result.temp_model = NoModel
                        /\ scoredOk => result.metrics.test_samples = N
            /\ t >= 7 => /\ HasCall(EvalCalls, "fit")
                         /\ scoredOk => result.metrics.test_samples = t

\* a series of 34 rows, whose test part has exactly 7 rows, went the holdout way
C6_Witness ==
    /\ Evaluated /\ Len(EvalSeries) = 34
    /\ "test_samples" \in DOMAIN result.metrics
    /\ result.metrics.test_samples = 7

ScoredBundle == Evaluated /\ "accuracy_category" \in DOMAIN result.metrics

\* a reported (rounded) percentage is <= t
ReportedLeq(m, t) == m.whole < t \/ (m.whole = t /\ m.frac = 0)

\* C7 as stated: the accuracy_category of every non-error bundle is fixed by
\* the bundle's MAPE: <= 10 Excellent, <= 20 Good, <= 50 Reasonable, else Poor.
C7_ByReportedMape ==
    ScoredBundle =>
        LET m == result.metrics.mape
            c == result.metrics.accuracy_category
        IN  /\ c \in {"Excellent", "Good", "Reasonable", "Poor"}
            /\ ReportedLeq(m, 10) => c = "Excellent"
            /\ (~ReportedLeq(m, 10) /\ ReportedLeq(m, 20)) => c = "Good"
            /\ (~ReportedLeq(m, 20) /\ ReportedLeq(m, 50)) => c = "Reasonable"
            /\ ~ReportedLeq(m, 50) => c = "Poor"

\* C7 amended: the accuracy_category of every non-error bundle is one of the
\* four labels and is fixed by the MAPE as computed, before it is rounded to
\* four decimals for the bundle's mape field.
C7_ByComputedMape ==
    ScoredBundle =>
        LET m == result.score.mape
            c == result.metrics.accuracy_category
        IN  /\ c \in {"Excellent", "Good", "Reasonable", "Poor"}
            /\ (c = "Excellent") <=> PctLeq(m, 10)
            /\ (c = "Good") <=> (~PctLeq(m, 10) /\ PctLeq(m, 20))
            /\ (c = "Reasonable") <=> (~PctLeq(m, 20) /\ PctLeq(m, 50))
            /\ (c = "Poor") <=> ~PctLeq(m, 50)
            /\ result.metrics.mape = RoundFrac(m, 100)

\* a bundle whose MAPE is exactly 20 has been labelled Good
C7_Witness ==
    /\ ScoredBundle
    /\ result.score.mape.n * 5 = result.score.mape.d
    /\ result.metrics.mape = [whole |-> 20, frac |-> 0]
    /\ result.metrics.accuracy_category = "Good"

\* C8: the evaluator's MAPE is the mean of |actual - pred| / |actual| over the
\* entries with a non-zero actual, times 100: 0 when every actual is 0, 0 when
\* actual equals prediction everywhere, and entries with actual 0 contribute
\* nothing.
C8_MaskedMape ==
    ScoredBundle =>
        LET a == result.score.y_true
            p == result.score.y_pred
            m == result.score.mape
            nz == SelectSeq([i \in DOMAIN a |-> i], LAMBDA i : a[i] # 0)
        IN  /\ m.d > 0
            /\ nz = <<>> => m.n = 0
            /\ (\A i \in DOMAIN a : a[i] = p[i]) => m.n = 0
            /\ nz # <<>> =>
                 /\ \A k \in DOMAIN nz : m.d % (Len(nz) * Abs(a[nz[k]])) = 0
                 /\ m.n = SumSeq([k \in DOMAIN nz |->
                                    Abs(a[nz[k]] - p[nz[k]]) * (m.d \div (Len(nz) * Abs(a[nz[k]])))])

\* a scored vector with a zero actual that was predicted positive next to a
\* non-zero actual that was missed
C8_Witness ==
    /\ ScoredBundle
    /\ \E i \in DOMAIN result.score.y_true :
         result.score.y_true[i] = 0 /\ result.score.y_pred[i] > 0
    /\ \E j \in DOMAIN result.score.y_true :
         result.score.y_true[j] # 0 /\ result.score.y_pred[j] # result.score.y_true[j]
    /\ result.score.mape.n > 0

\* the configuration made in the run that produced result, and its series
Configured ==
    \/ result.op = "create_prophet_model"
    \/ Evaluated /\ result.model # NoModel

ConfigOf == IF result.op = "create_prophet_model" THEN result.config ELSE result.model.config

SeriesOf == IF result.op = "create_prophet_model" THEN prepared.rows ELSE result.model.fitted_on

\* C9: for a prepared series of span S days weekly seasonality is on iff
\* S > 21, yearly iff S > 365, and the monthly seasonality (period 30.5,
\* fourier order 3) is added iff S > 30.
C9_SeasonalityBySpan ==
    Configured =>
        LET rows == SeriesOf
            S == rows[Len(rows)].ds - rows[1].ds
            c == ConfigOf
        IN  /\ c.weekly_seasonality <=> S > 21
            /\ c.yearly_seasonality <=> S > 365
            /\ S > 30 => c.seasonalities =
                           <<[name |-> "monthly", half_days |-> 61, fourier_order |-> 3]>>
            /\ S <= 30 => c.seasonalities = <<>>
            /\ c.daily_seasonality = FALSE

\* a series spanning 366 days has been configured with yearly seasonality
C9_Witness ==
    /\ Configured
    /\ SeriesOf[Len(SeriesOf)].ds - SeriesOf[1].ds = 366
    /\ ConfigOf.yearly_seasonality /\ ConfigOf.weekly_seasonality
    /\ Len(ConfigOf.seasonalities) = 1

\* C10: seasonality_mode is multiplicative iff the mean quantity is > 0 and
\* additive otherwise; for a prepared series additive exactly when every
\* quantity is 0.
C10_SeasonalityMode ==
    Configured =>
        LET rows == SeriesOf
            c == ConfigOf
        IN  /\ c.seasonality_mode \in {"multiplicative", "additive"}
            /\ (c.seasonality_mode = "additive") <=> (\A i \in DOMAIN rows : rows[i].y = 0)
            /\ (c.seasonality_mode = "multiplicative") <=> (\E i \in DOMAIN rows : rows[i].y > 0)

\* an all-zero series of several rows has been configured additive
C10_Witness ==
    /\ Configured /\ Len(SeriesOf) > 1
    /\ \A i \in DOMAIN SeriesOf : SeriesOf[i].y = 0
    /\ ConfigOf.seasonality_mode = "additive"

PredictDone == result.op = "predict_demand"

PredictOk == PredictDone /\ result.status = "ok"

\* C11: for every horizon_days > 0 predict_demand (artifact present, no step
\* raising) returns exactly horizon_days rows on consecutive calendar days,
\* the first being the day of start_date when it is supplied and the day
\* after the call otherwise; horizon 10 from day 1 yields days 1..10.
C11_HorizonDates ==
    (PredictDone /\ result.horizon_days > 0 /\ store.model_file /\ result.fault = "none")
        => LET p == result.predictions
           IN  /\ result.status = "ok"
               /\ Len(p) = result.horizon_days
               /\ \A i \in 1..(Len(p) - 1) : p[i + 1].date = p[i].date + 1
               /\ result.start_date # <<>> => p[1].date = result.start_date[1].day
               /\ result.start_date = <<>> => p[1].date = result.now.day + 1
               /\ (result.horizon_days = 10 /\ result.start_date = <<Timestamp(1, 0)>>)
                    => Col(p, "date") = <<1, 2, 3, 4, 5, 6, 7, 8, 9, 10>>

\* a forecast of 10 days without start_date, asked in the last second of day
\* 0, runs over days 1..10
C11_Witness ==
    /\ PredictOk /\ result.horizon_days = 10 /\ result.start_date = <<>>
    /\ result.now = Timestamp(0, 86399)
    /\ result.predictions[1].date = 1 /\ result.predictions[10].date = 10

\* C12: every forecast row returned by predict_demand has yhat >= 0 and, when
\* both bounds are present, yhat_lower >= 0 and yhat_lower <= yhat <=
\* yhat_upper, whatever raw values the fitted model produced.
C12_ClampedAndOrdered ==
    PredictOk =>
        \A i \in DOMAIN result.predictions :
            LET p == result.predictions[i]
            IN  /\ p.yhat >= 0
                /\ (p.yhat_lower # <<>> /\ p.yhat_upper # <<>>)
                     => /\ p.yhat_lower[1] >= 0
                        /\ p.yhat_lower[1] <= p.yhat
                        /\ p.yhat <= p.yhat_upper[1]

\* C13: in every predict_demand result the summary total is the sum of the
\* returned point estimates and the average that sum over horizon_days, both
\* within 0.01; peak is the date and value of the first row with the largest
\* point estimate, trough those of the first row with the smallest.
C13_Summary ==
    PredictOk =>
        LET p == result.predictions
            sm == result.summary
            h == result.horizon_days
            T == SumSeq([i \in DOMAIN p |-> p[i].yhat])
        IN  /\ Abs(10 * sm.total_predicted_demand - T) < 10
            /\ Abs(10 * h * sm.avg_daily_demand - T) < 10 * h
            /\ \E i \in DOMAIN p :
                 /\ sm.peak_demand = [date |-> p[i].date, value |-> p[i].yhat]
                 /\ \A j \in DOMAIN p : p[j].yhat <= p[i].yhat
                 /\ \A j \in 1..(i - 1) : p[j].yhat < p[i].yhat
            /\ \E i \in DOMAIN p :
                 /\ sm.low_demand = [date |-> p[i].date, value |-> p[i].yhat]
                 /\ \A j \in DOMAIN p : p[j].yhat >= p[i].yhat
                 /\ \A j \in 1..(i - 1) : p[j].yhat > p[i].yhat

\* the largest point estimate stands in the first two of three rows, the
\* total lies half way between two hundredths, and the first row is the peak
C13_Witness ==
    /\ PredictOk /\ Len(result.predictions) = 3
    /\ result.predictions[1].yhat = result.predictions[2].yhat
    /\ result.predictions[3].yhat < result.predictions[1].yhat
    /\ SumSeq(Col(result.predictions, "yhat")) % 10 = 5
    /\ result.summary.peak_demand.date = result.predictions[1].date

\* C14: predict_demand on a path without an artifact fails with the
\* model-not-found error before any load or prediction is attempted, and
\* yields no result.
C14_ModelNotFound ==
    (PredictDone /\ ~store.model_file)
        => /\ result.status = "FileNotFoundError"
           /\ result.calls = <<>>
           /\ result.predictions = <<>>
           /\ result.summary = [none |-> TRUE]

\* a forecast of 3 days was asked of a path without an artifact and refused
C14_Witness ==
    /\ PredictDone /\ ~store.model_file /\ result.horizon_days = 3
    /\ result.status = "FileNotFoundError"

AnalyzeDone == result.op = "analyze_forecast_accuracy"

AnalyzeOk == AnalyzeDone /\ result.status = "ok"

\* the dates that occur in the actuals and in the predictions
CommonDates ==
    {result.actual_data[i].date : i \in DOMAIN result.actual_data}
        \cap {result.predicted_data[j].date : j \in DOMAIN result.predicted_data}

\* C15: analyze_forecast_accuracy computes its metrics over exactly the rows
\* whose date occurs in both the actuals and the predictions, days_evaluated
\* being the number of such dates, and fails with the no-overlap error when
\* no date is common to both.
C15_JoinByDate ==
    AnalyzeDone =>
        LET rows == SelectSeq(result.actual_data, LAMBDA r : r.date \in CommonDates)
        IN  /\ CommonDates = {} => result.status = "NoOverlap"
            /\ CommonDates # {} =>
                 /\ result.status = "ok"
                 /\ result.evaluation_period.days_evaluated = Cardinality(CommonDates)
                 /\ Len(result.actual_values) = Len(rows)
                 /\ \A i \in DOMAIN rows : <<result.actual_values[i]>> = rows[i].actual

\* Fair and Reasonable name the same tier
Tier(label) == IF label = "Reasonable" THEN "Fair" ELSE label

\* C16: over every vector of (actual, predicted) pairs with predictions >= 0,
\* analyze_forecast_accuracy yields the MAPE that evaluate_model computes from
\* the same pairs, and therefore the same quality tier, also when some or all
\* actuals are 0.
C16_SameMapeAsEvaluator ==
    AnalyzeOk =>
        LET a == result.actual_values
            p == result.predicted_values
            e == MapeFraction(a, p)
            m == result.metrics.mape
        IN  /\ m.blown = 0
            /\ m.rest.n * e.d = e.n * m.rest.d
            /\ Tier(result.summary.forecast_quality) = Tier(AccuracyCategory(e))

IntervalsDone == result.op = "get_prediction_intervals"

\* the bound of a prediction, the point estimate standing in for an absent one
BoundOrPoint(p, key) ==
    IF key \in DOMAIN p /\ p[key] # <<>> THEN p[key][1] ELSE p.yhat

\* C17: get_prediction_intervals computes each day's width as upper - lower,
\* the point estimate standing in for an absent bound; it succeeds on every
\* non-empty prediction list, those of predict_demand with an absent lower or
\* upper bound included.
C17_WidthsWithAbsentBounds ==
    (IntervalsDone /\ result.predictions # <<>>)
        => /\ result.status = "ok"
           /\ result.interval_widths =
                [i \in DOMAIN result.predictions |->
                    BoundOrPoint(result.predictions[i], "yhat_upper")
                        - BoundOrPoint(result.predictions[i], "yhat_lower")]

PreparedAgain == result.op = "prepare_data_again"

C19_EmptyInput ==
    (PrepareDone /\ \A i \in DOMAIN df : df[i].y = <<>>)
        => /\ prepared.status = "ValueError"
           /\ prepared.rows = <<>>

\* an input of two rows, both with a null quantity, has been refused
C19_Witness ==
    /\ PrepareDone /\ Len(df) = 2
    /\ \A i \in DOMAIN df : df[i].y = <<>>
    /\ prepared.status = "ValueError"

\* C20: when the input of prepare_data holds rows with a null quantity the
\* nulls are removed: the result has as many rows as the input has rows with
\* a non-null quantity (5 daily rows, 2 of them null, give 3 rows).
C20_NullsRemoved ==
    (/\ PrepareDone /\ prepared.status = "ok"
     /\ \E i \in DOMAIN df : df[i].y = <<>>)
        => /\ Len(prepared.rows) = Len(SelectSeq(df, LAMBDA r : r.y # <<>>))
           /\ df = NullTestInput => Len(prepared.rows) = 3

CrossValidated == result.op = "cross_validate_model"

\* C21: cross_validate_model selects its windows from the data span alone:
\* span < 90 gives (horizon 14, initial 30, period 7), 90 <= span < 365 gives
\* (30, 90, 14), span >= 365 gives (60, 180, 30); exactly one row of the table
\* applies to every span.
C21_WindowsBySpan ==
    CrossValidated =>
        LET span == result.data_span
            asked == result.calls[1]
            short == span < 90
            middle == 90 <= span /\ span < 365
            long == span >= 365
            is(h, i, p) == asked.horizon = h /\ asked.initial = i /\ asked.period = p
        IN  /\ Len(result.calls) = 1
            /\ span = MaxDs(prepared.rows) - MinDs(prepared.rows)
            /\ short => is(14, 30, 7)
            /\ middle => is(30, 90, 14)
            /\ long => is(60, 180, 30)
            /\ Cardinality({b \in {"short", "middle", "long"} :
                               \/ b = "short" /\ short
                               \/ b = "middle" /\ middle
                               \/ b = "long" /\ long}) = 1

\* a series that spans exactly 90 days has been cross-validated with the
\* middle windows
C21_Witness ==
    /\ CrossValidated /\ result.data_span = 90
    /\ result.calls[1].horizon = 30 /\ result.calls[1].initial = 90

\* C22: every failure raised by the training gate carries the item identifier
\* and the numeric context that triggered it: the insufficient-data error
\* reports the required count 30, the actual count N and the item key.
C22_GateErrorContext ==
    (/\ result.op \in {"train_prophet_model", "train_model_async"}
     /\ result.status = "InsufficientData")
        => /\ {"sku", "required", "got"} \subseteq DOMAIN result.error
           /\ result.error.required = 30
           /\ result.error.got = result.got

\* the configuration the code derives from a series: weekly and yearly
\* seasonality and the monthly component by span, the mode by mean
ConfiguredFrom(config, rows) ==
    LET span == rows[Len(rows)].ds - rows[1].ds
        total == SumSeq(Col(rows, "y"))
    IN  /\ config.weekly_seasonality = (span > 21)
        /\ config.yearly_seasonality = (span > 365)
        /\ (config.seasonalities # <<>>) = (span > 30)
        /\ config.seasonality_mode = IF total > 0 THEN "multiplicative" ELSE "additive"

\* the run that produced result fitted a holdout model
HoldoutFitted ==
    /\ Evaluated /\ HasCall(EvalCalls, "fit")
    /\ result.fault # "eval_fit"

\* C23: in the holdout path the evaluation model is a new instance whose
\* configuration is computed from the 80% train subset's own span and mean,
\* not copied from the full-series model, and the model returned by
\* train_prophet_model is always the one fitted on the full prepared series,
\* never the holdout model.
C23_HoldoutModelIsNew ==
    /\ HoldoutFitted =>
          LET N == Len(EvalSeries)
              train == SubSeq(EvalSeries, 1, (4 * N) \div 5)
          IN  /\ result.temp_model # result.model
              /\ result.temp_model.fitted_on = train
              /\ ConfiguredFrom(result.temp_model.config, train)
              /\ EvalCalls[1] = [call |-> "configure", df |-> train]
    /\ (TrainDone /\ result.status = "ok") =>
          /\ result.model.fitted_on = prepare_data(df).rows
          /\ ConfiguredFrom(result.model.config, prepare_data(df).rows)
          /\ result.model # result.temp_model

\* train_prophet_model returned the full-series model after a holdout model
\* was configured otherwise: in span (no monthly component) and in mean
\* (additive, the train part holding no sale)
C23_Witness ==
    /\ TrainDone /\ result.status = "ok" /\ HoldoutFitted
    /\ result.model.config.seasonality_mode = "multiplicative"
    /\ result.temp_model.config.seasonality_mode = "additive"
    /\ result.model.config.seasonalities # <<>>
    /\ result.temp_model.config.seasonalities = <<>>

\* C24: for every successful train_prophet_model call whose metrics bundle is
\* not the error bundle, 7 <= test_samples <= N, N the prepared length: the
\* holdout evaluation is used exactly when N >= 31, and N = 30 is scored
\* in-sample with test_samples = 30.
C24_TestSamplesRange ==
    (TrainDone /\ result.status = "ok" /\ "error" \notin DOMAIN result.metrics) =>
        LET N == Len(prepare_data(df).rows)
            samples == result.metrics.test_samples
            holdout == HasCall(EvalCalls, "fit")
        IN  /\ 7 <= samples /\ samples <= N
            /\ holdout <=> N >= 31
            /\ holdout => samples < N /\ samples = Len(result.score.y_true)
            /\ N = 30 => ~holdout /\ samples = 30
            /\ N >= 30

\* 31 prepared rows have been scored on a holdout of exactly 7 rows
C24_Witness ==
    /\ TrainDone /\ result.status = "ok" /\ "error" \notin DOMAIN result.metrics
    /\ Len(prepare_data(df).rows) = 31
    /\ result.metrics.test_samples = 7
    /\ HasCall(EvalCalls, "fit")

BatchDone == result.op = "batch_predict"

\* C25: for every list of model paths batch_predict processes each path
\* independently (a failing path does not stop the others), its summary
\* satisfies successful_predictions + failed_predictions = total_models, and
\* every input path is accounted for in exactly one of results or errors.
C25_BatchAccounting ==
    BatchDone =>
        /\ result.calls = result.model_paths
        /\ result.summary.successful_predictions + result.summary.failed_predictions
              = result.summary.total_models
        /\ result.summary.total_models = Len(result.model_paths)
        /\ \A i \in DOMAIN result.model_paths :
              (SkuOfPath(result.model_paths[i]) \in DOMAIN result.results)
                  # (result.model_paths[i] \in DOMAIN result.errors)

PredictAnswered == result.op = "predict_endpoint"

\* C26: under any interleaving of concurrent train (retrain), predict and
\* delete requests for the item, the metrics returned by the predict endpoint
\* are those produced by the same training run as the model it used for the
\* forecast, and a predict that found the model present never fails because
\* the artifact disappeared before it was loaded.
C26_ConsistentPredict ==
    PredictAnswered =>
        /\ result.status = "ok" =>
             /\ result.model_run > 0
             /\ result.metrics_run = result.model_run
             /\ result.metrics # EmptyDict
             /\ result.model # NoModel
        /\ result.found => ~(result.status = "PredictionFailed" /\ result.cause = "load")
        /\ (result.found /\ result.horizon_days > 0 /\ ~result.predict_fault)
              => result.status = "ok"

\* a predict was answered from artifacts found on disk while a training of
\* the item was waiting to run
C26_Witness ==
    /\ PredictAnswered /\ result.status = "ok" /\ result.found
    /\ result.model_run = 1 /\ result.queued = 1

\* C27: if train_model_async fails at any step (no sales data, fewer than 30
\* records, training error, experiment-log error) the item's persisted model
\* and metrics artifacts are exactly what they were before the call: a failed
\* training neither creates nor overwrites an artifact.
C27_FailedTrainingKeepsArtifacts ==
    (result.op = "train_model_async" /\ result.status # "ok")
        => /\ result.status \in {"NoSalesData", "InsufficientData", "ValueError",
                                 "FitError", "MlflowError"}
           /\ store = EmptyStore

====
